---- MODULE Spec2Model ----
(***************************************************************************)
(* Model of the useJoke hook (src/src/hooks/useJoke.js) and of the Joke    *)
(* and Button components that render its state.                            *)
(*                                                                         *)
(* JavaScript values are tagged records [type, val]; a string's val is the *)
(* sequence of its pieces (a joke is one piece, a status code is one piece *)
(* per decimal digit).  Each handler, and each continuation of fetchJoke   *)
(* between two awaits, is one action: it queues its setter calls in        *)
(* program order in `updates` and the hook state is the result of applying *)
(* them in that order.                                                     *)
(***************************************************************************)
EXTENDS Integers, Sequences, FiniteSets, TLC

\* ---- bounds --------------------------------------------------------------
MaxCalls == 2                       \* fetchJoke invocations in one session
Jokes == {"j1", "j2", "j3"}         \* joke texts the endpoint may return
Statuses == {200, 404, 500}         \* HTTP statuses the endpoint may return

Calls == 1..MaxCalls

\* ---- JavaScript values ---------------------------------------------------
Null == [type |-> "null", val |-> <<>>]
Undefined == [type |-> "undefined", val |-> <<>>]
Str(pieces) == [type |-> "string", val |-> pieces]
EmptyString == Str(<<>>)

Truthy(v) == v.type = "string" /\ Len(v.val) > 0

DigitChars == <<"0", "1", "2", "3", "4", "5", "6", "7", "8", "9">>

RECURSIVE ToDecimal(_)
ToDecimal(n) ==
    IF n < 10 THEN <<DigitChars[n + 1]>>
    ELSE ToDecimal(n \div 10) \o <<DigitChars[(n % 10) + 1]>>

\* `HTTP error! status: ${response.status}`
HttpErrorMessage(status) == Str(<<"HTTP error! status: ">> \o ToDecimal(status))

\* messages of the errors the platform throws
TransportMessages ==
    {Str(<<"Failed to fetch">>),
     Str(<<"NetworkError when attempting to fetch resource.">>)}
SyntaxErrorMessage == Str(<<"Unexpected token in JSON">>)
TypeErrorMessage == Str(<<"Cannot read properties of null (reading 'joke')">>)

\* s occurs in the string m as a contiguous run of pieces
Contains(m, s) ==
    \E k \in 0..(Len(m.val) - Len(s)) :
        \A n \in 1..Len(s) : m.val[k + n] = s[n]

\* ---- responses -----------------------------------------------------------
\* response.ok
ResponseOk(status) == status >= 200 /\ status <= 299

NoBody == [kind |-> "none", has |-> FALSE, joke |-> Undefined]
Bodies ==
    {[kind |-> "object", has |-> TRUE, joke |-> Str(<<j>>)] : j \in Jokes}
    \cup {[kind |-> "object", has |-> FALSE, joke |-> Undefined],
          [kind |-> "null", has |-> FALSE, joke |-> Undefined],
          [kind |-> "invalid", has |-> FALSE, joke |-> Undefined]}

\* data.joke on a parsed object
JokeField(data) == IF data.has THEN data.joke ELSE Undefined

\* ---- hook state ----------------------------------------------------------
VARIABLES
    joke,        \* useState("")
    isLoading,   \* useState(false)
    error,       \* useState(null)
    pc,          \* pc[i], i-th call of fetchJoke: "idle" (not called yet),
                 \* "fetch" (at await fetch), "json" (at await response.json()),
                 \* "done" (returned)
    body,        \* body[i]: body of the response invocation i is parsing
    updates,     \* setter calls of the last handler or continuation, in order
    jokeAtCall,  \* history: joke when invocation i was called
    during,      \* history: what happened while invocation i was outstanding
    last         \* history: the last operation and its outcome

vars == <<joke, isLoading, error, pc, body, updates, jokeAtCall, during, last>>

state == [joke |-> joke, isLoading |-> isLoading, error |-> error]

SetJoke(v) == [set |-> "setJoke", arg |-> v]
SetIsLoading(b) == [set |-> "setIsLoading", arg |-> b]
SetError(v) == [set |-> "setError", arg |-> v]

ApplyOne(s, u) ==
    CASE u.set = "setJoke" -> [s EXCEPT !.joke = u.arg]
      [] u.set = "setIsLoading" -> [s EXCEPT !.isLoading = u.arg]
      [] u.set = "setError" -> [s EXCEPT !.error = u.arg]

RECURSIVE ApplyAll(_, _)
ApplyAll(s, us) ==
    IF us = <<>> THEN s ELSE ApplyAll(ApplyOne(s, Head(us)), Tail(us))

\* the handler's setter calls take effect, in order
Commit(us) ==
    /\ updates' = us
    /\ joke' = ApplyAll(state, us).joke
    /\ isLoading' = ApplyAll(state, us).isLoading
    /\ error' = ApplyAll(state, us).error

Outstanding == {i \in Calls : pc[i] \in {"fetch", "json"}}

InitialState == [joke |-> EmptyString, isLoading |-> FALSE, error |-> Null]

NoLast == [op |-> "init", id |-> 0, outcome |-> "none", kind |-> "none",
           status |-> 0, value |-> Null, jokeAtCall |-> EmptyString,
           during |-> {}, before |-> InitialState]

\* the events of this step, as seen by the invocations outstanding across it
Note(i, events) ==
    during' = [k \in Calls |->
                 IF k = i THEN {}
                 ELSE IF k \in Outstanding THEN during[k] \cup events
                 ELSE {}]

Init ==
    /\ joke = InitialState.joke
    /\ isLoading = InitialState.isLoading
    /\ error = InitialState.error
    /\ pc = [i \in Calls |-> "idle"]
    /\ body = [i \in Calls |-> NoBody]
    /\ updates = <<>>
    /\ jokeAtCall = [i \in Calls |-> EmptyString]
    /\ during = [i \in Calls |-> {}]
    /\ last = NoLast

\* ---- fetchJoke -----------------------------------------------------------
\* lines 11-12, up to the await of fetch()
FetchJokeStartNoClear == <<SetIsLoading(TRUE)>>
FetchJokeStart == <<SetIsLoading(TRUE), SetError(Null)>>

\* invocation i runs up to its first await
FetchJokeCall(i) ==
    /\ Commit(FetchJokeStart)
    /\ pc' = [pc EXCEPT ![i] = "fetch"]
    /\ jokeAtCall' = [jokeAtCall EXCEPT ![i] = joke]
    /\ Note(i, {"fetch"})
    /\ last' = [NoLast EXCEPT !.op = "fetchJoke", !.id = i,
                              !.jokeAtCall = joke, !.before = state]
    /\ UNCHANGED body

\* fetchJoke called by any caller of the hook, at most MaxCalls times
FetchJoke(i) ==
    /\ pc[i] = "idle"
    /\ \A k \in 1..(i - 1) : pc[k] # "idle"   \* numbered in call order
    /\ FetchJokeCall(i)

\* catch (err) { setError(err.message) } finally { setIsLoading(false) }
CatchFinallyNoFinally(message) == <<SetError(message)>>
CatchFinallySwapped(message) == <<SetIsLoading(FALSE), SetError(message)>>
CatchFinallyKeepsError(message) == <<SetIsLoading(FALSE)>>
CatchFinallyClearsJoke(message) ==
    <<SetJoke(EmptyString), SetError(message), SetIsLoading(FALSE)>>
CatchFinally(message) == <<SetError(message), SetIsLoading(FALSE)>>

\* setJoke(data.joke); finally { setIsLoading(false) }
SuccessFinallyNoSet(data) == <<SetIsLoading(FALSE)>>
SuccessFinally(data) == <<SetJoke(JokeField(data)), SetIsLoading(FALSE)>>

Finish(i, outcome, kind, status, value, events) ==
    /\ pc' = [pc EXCEPT ![i] = "done"]
    /\ body' = [body EXCEPT ![i] = NoBody]
    /\ jokeAtCall' = [jokeAtCall EXCEPT ![i] = EmptyString]
    /\ Note(i, events)
    /\ last' = [op |-> "settle", id |-> i, outcome |-> outcome, kind |-> kind,
                status |-> status, value |-> value,
                jokeAtCall |-> jokeAtCall[i], during |-> during[i],
                before |-> state]

\* fetch() rejects: the request could not be completed
FetchRejected(i) ==
    /\ pc[i] = "fetch"
    /\ \E m \in TransportMessages :
          /\ Commit(CatchFinally(m))
          /\ Finish(i, "fail", "transport", 0, m, {"fail"})

\* fetch() resolves with a non-success status: line 20 throws
FetchResolvedNotOk(i) ==
    /\ pc[i] = "fetch"
    /\ \E status \in Statuses :
          /\ ~ResponseOk(status)
          /\ Commit(CatchFinally(HttpErrorMessage(status)))
          /\ Finish(i, "fail", "http", status, HttpErrorMessage(status),
                    {"fail"})

\* fetch() resolves with a success status: the invocation awaits response.json()
FetchResolvedOk(i) ==
    /\ pc[i] = "fetch"
    /\ \E status \in Statuses, b \in Bodies :
          /\ ResponseOk(status)
          /\ pc' = [pc EXCEPT ![i] = "json"]
          /\ body' = [body EXCEPT ![i] = b]
          /\ last' = [NoLast EXCEPT !.op = "response", !.id = i,
                                    !.status = status,
                                    !.jokeAtCall = jokeAtCall[i],
                                    !.during = during[i],
                                    !.before = state]
    /\ Commit(<<>>)
    /\ UNCHANGED <<jokeAtCall, during>>

\* response.json() rejects: the body is not JSON
JsonRejected(i) ==
    /\ pc[i] = "json"
    /\ body[i].kind = "invalid"
    /\ Commit(CatchFinally(SyntaxErrorMessage))
    /\ Finish(i, "fail", "parse", 200, SyntaxErrorMessage, {"fail"})

\* response.json() resolves with null: data.joke throws a TypeError
JsonNull(i) ==
    /\ pc[i] = "json"
    /\ body[i].kind = "null"
    /\ Commit(CatchFinally(TypeErrorMessage))
    /\ Finish(i, "fail", "parse", 200, TypeErrorMessage, {"fail"})

\* response.json() resolves with an object: lines 24 and 29
JsonResolved(i) ==
    /\ pc[i] = "json"
    /\ body[i].kind = "object"
    /\ Commit(SuccessFinally(body[i]))
    /\ Finish(i, "ok", IF body[i].has THEN "joke" ELSE "missing", 200,
              JokeField(body[i]), {"ok"})

\* ---- clearJoke -----------------------------------------------------------
ClearJokeUpdatesStopsLoading ==
    <<SetJoke(EmptyString), SetError(Null), SetIsLoading(FALSE)>>
ClearJokeUpdates == <<SetJoke(EmptyString), SetError(Null)>>

ClearJokeCancels ==
    /\ Commit(ClearJokeUpdates)
    /\ pc' = [k \in Calls |-> IF k \in Outstanding THEN "done" ELSE pc[k]]
    /\ body' = [k \in Calls |-> NoBody]
    /\ during' = [k \in Calls |-> {}]
    /\ last' = [NoLast EXCEPT !.op = "clearJoke", !.before = state]
    /\ UNCHANGED jokeAtCall

ClearJoke ==
    /\ Commit(ClearJokeUpdates)
    /\ during' = [k \in Calls |->
                    IF k \in Outstanding THEN during[k] \cup {"clear"}
                    ELSE {}]
    /\ last' = [NoLast EXCEPT !.op = "clearJoke", !.before = state]
    /\ UNCHANGED <<pc, body, jokeAtCall>>

Settle(i) ==
    \/ FetchRejected(i)
    \/ FetchResolvedNotOk(i)
    \/ FetchResolvedOk(i)
    \/ JsonRejected(i)
    \/ JsonNull(i)
    \/ JsonResolved(i)

Next ==
    \/ \E i \in Calls : FetchJoke(i)
    \/ \E i \in Calls : Settle(i)
    \/ ClearJoke

Spec == Init /\ [][Next]_vars

\* every issued request eventually settles
FairSpec == Spec /\ \A i \in Calls : WF_vars(Settle(i))

\* ---- Joke component ------------------------------------------------------
\* the elements Joke renders under the button
Rendered ==
    (IF Truthy(error) THEN {"error"} ELSE {})
    \cup (IF isLoading THEN {"loading"} ELSE {})
    \cup (IF Truthy(joke) /\ ~isLoading THEN {"joke-text"} ELSE {})

\* ---- Button component ----------------------------------------------------
\* Joke renders <Button onGenerateJoke={fetchJoke} isLoading={isLoading} />
\* and passes no `disabled`, so the prop takes its default
DisabledProp == FALSE

\* disabled={disabled || isLoading}
ButtonDisabledIgnoresLoading(disabled, loading) == disabled
ButtonDisabled(disabled, loading) == disabled \/ loading

\* onClick={onGenerateJoke}: a disabled button dispatches no click.  Any
\* number of clicks: the invocation takes the first slot with no request
\* outstanding.
Click(i) ==
    /\ ~ButtonDisabled(DisabledProp, isLoading)
    /\ i \notin Outstanding
    /\ \A k \in 1..(i - 1) : k \in Outstanding
    /\ FetchJokeCall(i)

\* the page: fetchJoke is reachable only through the button, and Joke never
\* calls clearJoke
UiNext ==
    \/ \E i \in Calls : Click(i)
    \/ \E i \in Calls : Settle(i)

UiSpec == Init /\ [][UiNext]_vars

\* ---- properties ----------------------------------------------------------
Settled == last.op = "settle"
\* the call that just settled got a success status and a body {joke: S}
SettledWithJoke == Settled /\ last.kind = "joke"
SettledFailed == Settled /\ last.outcome = "fail"
\* another call settled while the call that just settled was outstanding
SettledLastOfTwo == Settled /\ last.during \cap {"ok", "fail"} # {}

\* C1 as stated: after a fetch that got {joke: S} settles, content = S,
\* error = null and isLoading = false, whatever happened meanwhile.
C1_AsStated ==
    SettledWithJoke =>
        /\ joke = last.value
        /\ error = Null
        /\ isLoading = FALSE

\* C1 amended: after a fetch that got {joke: S} settles, content = S and
\* isLoading = false; error is null provided no other fetch failed while the
\* call was outstanding.
C1_SuccessSettles ==
    SettledWithJoke =>
        /\ joke = last.value
        /\ isLoading = FALSE
        /\ ("fail" \notin last.during => error = Null)

C1_Witness ==
    /\ SettledWithJoke
    /\ "ok" \in last.during
    /\ Truthy(last.before.joke)
    /\ last.before.joke # last.value
    /\ joke = last.value
    /\ error = Null

\* C2 as stated: after a failing fetch settles, error is a message (holding
\* the status code for a non-success status), content equals its value
\* before the call and isLoading = false.  (Stated for content that is a
\* string throughout, so that a response without the joke field plays no
\* part.)
C2_AsStated ==
    (/\ SettledFailed
     /\ joke.type = "string"
     /\ last.jokeAtCall.type = "string") =>
        /\ error.type = "string"
        /\ (last.kind = "http" => Contains(error, ToDecimal(last.status)))
        /\ joke = last.jokeAtCall
        /\ isLoading = FALSE

\* C2 amended: after a failing fetch settles, error is a message (holding
\* the status code for a non-success status), isLoading = false, and content
\* is what it was just before the settlement: its value before the call
\* unless clear() or another fetch's success wrote it meanwhile.
C2_FailureSettles ==
    SettledFailed =>
        /\ error.type = "string"
        /\ error = last.value
        /\ (last.kind = "http" => Contains(error, ToDecimal(last.status)))
        /\ joke = last.before.joke
        /\ (last.during \cap {"clear", "ok"} = {} => joke = last.jokeAtCall)
        /\ isLoading = FALSE

C2_Witness ==
    /\ SettledFailed
    /\ last.kind = "http"
    /\ last.during = {}
    /\ Truthy(last.jokeAtCall)
    /\ joke = last.jokeAtCall
    /\ error = HttpErrorMessage(500)

\* C3: right after fetch() is called, isLoading = true, error = null and
\* content is what it was before the call.
C3_FetchStarts ==
    last.op = "fetchJoke" =>
        /\ isLoading = TRUE
        /\ error = Null
        /\ joke = last.before.joke
        /\ pc[last.id] = "fetch"

C3_Witness ==
    /\ last.op = "fetchJoke"
    /\ last.before.error # Null
    /\ ~last.before.isLoading
    /\ error = Null
    /\ isLoading

\* C4: clear() sets content = "" and error = null and leaves isLoading as it
\* was; a second clear() changes nothing.
C4_Clear ==
    last.op = "clearJoke" =>
        /\ joke = EmptyString
        /\ error = Null
        /\ isLoading = last.before.isLoading
        /\ ApplyAll(state, ClearJokeUpdates) = state

C4_Witness ==
    /\ last.op = "clearJoke"
    /\ isLoading
    /\ Truthy(last.before.joke)
    /\ joke = EmptyString

\* C5 as stated: isLoading is true exactly when some request has been
\* started and has not yet settled.
C5_AsStated == isLoading <=> (Outstanding # {})

\* C5 amended: isLoading is true only while some request is outstanding, and
\* it is true while a request is outstanding provided no other request has
\* settled since that request was started.
C5_Loading ==
    /\ isLoading => Outstanding # {}
    /\ \A i \in Outstanding :
          during[i] \cap {"ok", "fail"} = {} => isLoading

C5_Witness ==
    /\ isLoading
    /\ \E i \in Calls : pc[i] = "done"
    /\ \E i \in Outstanding : pc[i] = "json"

\* C6: a success status with a parseable body that lacks the joke field is a
\* parse failure: error is non-null and content is as before the call.
C6_MissingFieldFails ==
    (Settled /\ last.kind = "missing") =>
        /\ error # Null
        /\ joke = last.jokeAtCall

\* C7: the display renders at most one of the error message, the loading
\* indicator and the joke text.
C7_RendersOne == Cardinality(Rendered) <= 1

\* C8 as stated: of two overlapping calls the one that settles last wins:
\* isLoading is false; if it succeeded content is its joke and error is
\* null; if it failed error is its message.
C8_AsStated ==
    SettledLastOfTwo =>
        /\ isLoading = FALSE
        /\ (last.kind = "joke" => joke = last.value /\ error = Null)
        /\ (last.outcome = "fail" => error = last.value)

\* C8 amended: of two overlapping calls, once the last one settles
\* isLoading is false; if it succeeded content is its joke and error is left
\* as it was (null unless the other call failed); if it failed error is its
\* message and content is left as it was.
C8_LastSettles ==
    SettledLastOfTwo =>
        /\ isLoading = FALSE
        /\ (last.outcome = "ok" =>
               /\ joke = last.value
               /\ error = last.before.error
               /\ ("fail" \notin last.during => error = Null))
        /\ (last.outcome = "fail" =>
               /\ error = last.value
               /\ joke = last.before.joke)

C8_Witness ==
    /\ SettledLastOfTwo
    /\ last.id = 1
    /\ pc[2] = "done"
    /\ last.outcome = "fail"
    /\ "ok" \in last.during
    /\ error = last.value
    /\ Truthy(joke)

\* C9: an outstanding request is never cancelled: clear() and fetch() leave
\* every outstanding request where it is, and a request that settles applies
\* its outcome whatever was called while it was outstanding.
C9_NoCancel ==
    /\ [][\A i \in Outstanding :
             last'.op \in {"clearJoke", "fetchJoke"} =>
                 /\ pc'[i] = pc[i]
                 /\ body'[i] = body[i]]_vars
    /\ [](Settled =>
             /\ (last.outcome = "ok" => joke = last.value)
             /\ (last.outcome = "fail" => error = last.value))

C9_Witness ==
    /\ SettledWithJoke
    /\ {"clear", "fetch"} \subseteq last.during
    /\ last.before.joke = EmptyString
    /\ joke = last.value

\* C10: if every issued request settles, isLoading = true leads to
\* isLoading = false, and in every continuation that ends a fetch the
\* isLoading update comes last, after the content or error update.
C10_LoadingCleared ==
    /\ (isLoading = TRUE) ~> (isLoading = FALSE)
    /\ [](Settled =>
             /\ Len(updates) = 2
             /\ updates[1].set \in {"setJoke", "setError"}
             /\ updates[2] = SetIsLoading(FALSE))

C10_Witness ==
    /\ SettledFailed
    /\ updates = <<SetError(last.value), SetIsLoading(FALSE)>>
    /\ isLoading = FALSE
    /\ Outstanding = {}

\* C11: when fetch() is invoked only by activating the button, which is
\* disabled whenever isLoading is true, at most one request is in flight,
\* and the button is disabled exactly while it is.
C11_OneInFlight ==
    /\ Cardinality(Outstanding) <= 1
    /\ ButtonDisabled(DisabledProp, isLoading) <=> (Outstanding # {})

C11_Witness ==
    /\ last.op = "fetchJoke"
    /\ last.before.error # Null
    /\ Truthy(joke)
    /\ Cardinality(Outstanding) = 1
    /\ ButtonDisabled(DisabledProp, isLoading)

====
